---- MODULE Spec2Model ----
(***************************************************************************)
(* A model of src/alexaControl.py: the session-authenticated request layer *)
(* (getCookie, normalizeCookie, getCsrf, constructHeaders, makeRequest),   *)
(* the lazily fetched device cache (retrieveDevices, getDevices, ...), the *)
(* command envelope (constructAlexaCmd) and the dispatcher (execute).      *)
(*                                                                         *)
(* Text is a sequence of atoms.  An atom is one character that JSON treats *)
(* specially (quote, backslash, brace, bracket, colon, comma, space,       *)
(* newline, a digit, a minus sign), one byte that is not ASCII, or a run   *)
(* of ordinary characters ("PREVIEW", "csrf") that escaping, parsing and   *)
(* formatting all copy unchanged.                                          *)
(***************************************************************************)
EXTENDS Integers, Sequences, FiniteSets, TLC

(***************************************************************************)
(* Bounds of the model.                                                    *)
(***************************************************************************)
\* Calls that would fetch the device list are taken while fewer than this
\* many GETs of it have been issued.
MaxFetches == 2
\* Longest message (in atoms) handed to speak.
MaxMsgLen == 1

(***************************************************************************)
(* Python values, tagged with their type.                                  *)
(***************************************************************************)
None == [t |-> "none"]
Str(s) == [t |-> "str", v |-> s]
IntVal(n) == [t |-> "int", v |-> n]
List(xs) == [t |-> "list", v |-> xs]
\* A dict is its items in insertion order, each [k |-> key text, v |-> value].
Dict(items) == [t |-> "dict", v |-> items]
Item(key, val) == [k |-> key, v |-> val]

Q == "\""
BS == "\\"
NL == "\n"
Digits == <<"0", "1", "2", "3", "4", "5", "6", "7", "8", "9">>
IsDigit(a) == \E d \in 1..10 : Digits[d] = a
DigitValue(a) == (CHOOSE d \in 1..10 : Digits[d] = a) - 1

\* d[key] for a dict d: [ok, val]; ok is FALSE where Python raises KeyError.
DictGet(d, key) ==
    LET hits == {i \in 1..Len(d.v) : d.v[i].k = key}
    IN  IF hits = {} THEN [ok |-> FALSE, val |-> None]
        ELSE [ok |-> TRUE, val |-> d.v[CHOOSE i \in hits : TRUE].v]

\* items with d[key] = val: a present key keeps its place, a new one goes last.
DictSet(items, key, val) ==
    IF \E i \in 1..Len(items) : items[i].k = key
    THEN [i \in 1..Len(items) |->
            IF items[i].k = key THEN Item(key, val) ELSE items[i]]
    ELSE Append(items, Item(key, val))

\* The decimal text of a natural number, and of an integer.
RECURSIVE NatText(_)
NatText(n) == IF n < 10 THEN <<Digits[n + 1]>>
              ELSE NatText(n \div 10) \o <<Digits[(n % 10) + 1]>>
IntText(n) == IF n < 0 THEN <<"-">> \o NatText(0 - n) ELSE NatText(n)

\* str(x) and '{}'.format(x).
PyStr(x) ==
    CASE x.t = "str" -> x.v
      [] x.t = "int" -> IntText(x.v)
      [] x.t = "none" -> <<"None">>
      [] OTHER -> <<"<object>">>

(***************************************************************************)
(* json.dumps with its default separators (", " and ": ").                 *)
(***************************************************************************)
\* The escaped form of one atom, and of a text (halved, then joined).
EscapeAtom(a) ==
    CASE a = Q -> <<BS, Q>>
      [] a = BS -> <<BS, BS>>
      [] a = NL -> <<BS, "n">>
      [] OTHER -> <<a>>
RECURSIVE Escape(_)
Escape(s) ==
    IF s = <<>> THEN <<>>
    ELSE IF Len(s) = 1 THEN EscapeAtom(s[1])
    ELSE LET m == Len(s) \div 2
         IN  Escape(SubSeq(s, 1, m)) \o Escape(SubSeq(s, m + 1, Len(s)))

DumpsStr(s) == <<Q>> \o Escape(s) \o <<Q>>

RECURSIVE JsonDumps(_)
RECURSIVE DumpsItems(_)
RECURSIVE DumpsElements(_)
DumpsItems(items) ==
    IF items = <<>> THEN <<>>
    ELSE DumpsStr(Head(items).k) \o <<":", " ">> \o JsonDumps(Head(items).v)
         \o (IF Len(items) > 1 THEN <<",", " ">> ELSE <<>>)
         \o DumpsItems(Tail(items))
DumpsElements(xs) ==
    IF xs = <<>> THEN <<>>
    ELSE JsonDumps(Head(xs))
         \o (IF Len(xs) > 1 THEN <<",", " ">> ELSE <<>>)
         \o DumpsElements(Tail(xs))
JsonDumps(x) ==
    CASE x.t = "none" -> <<"null">>
      [] x.t = "str" -> DumpsStr(x.v)
      [] x.t = "int" -> IntText(x.v)
      [] x.t = "list" -> <<"[">> \o DumpsElements(x.v) \o <<"]">>
      [] x.t = "dict" -> <<"{">> \o DumpsItems(x.v) \o <<"}">>

(***************************************************************************)
(* json.loads: a recursive-descent parser over the text.  Every parser     *)
(* returns [ok, val, next]: the value read and the position after it.      *)
(***************************************************************************)
ParseFail == [ok |-> FALSE, val |-> None, next |-> 0]
Parsed(val, next) == [ok |-> TRUE, val |-> val, next |-> next]

RECURSIVE SkipWs(_, _)
SkipWs(text, i) ==
    IF i <= Len(text) /\ text[i] \in {" ", NL} THEN SkipWs(text, i + 1) ELSE i

\* The number of consecutive backslashes that end at position p of a string
\* literal whose first character is at position lo.
RECURSIVE BackslashRun(_, _, _)
BackslashRun(text, lo, p) ==
    IF p >= lo /\ text[p] = BS THEN 1 + BackslashRun(text, lo, p - 1) ELSE 0
\* Position p follows a backslash that escapes it.
Escaped(text, lo, p) == BackslashRun(text, lo, p - 1) % 2 = 1

\* Positions a..b of the literal with the escapes undone (halved, then joined).
RECURSIVE Unescaped(_, _, _, _)
Unescaped(text, lo, a, b) ==
    IF a > b THEN <<>>
    ELSE IF a = b
    THEN IF Escaped(text, lo, a)
         THEN (CASE text[a] = "n" -> <<NL>> [] OTHER -> <<text[a]>>)
         ELSE IF text[a] = BS THEN <<>> ELSE <<text[a]>>
    ELSE LET m == (a + b) \div 2
         IN  Unescaped(text, lo, a, m) \o Unescaped(text, lo, m + 1, b)

\* The string literal whose first character (after the opening quote) is at
\* position i: it runs to the first quote that no backslash escapes.
ParseString(text, i) ==
    LET closers == {k \in i..Len(text) : text[k] = Q /\ ~Escaped(text, i, k)}
        close == CHOOSE k \in closers : \A j \in closers : k <= j
    IN  IF closers = {} THEN ParseFail
        ELSE IF \E p \in i..(close - 1) :
                   \/ text[p] = NL
                   \/ Escaped(text, i, p) /\ text[p] \notin {Q, BS, "n"}
        THEN ParseFail
        ELSE Parsed(Unescaped(text, i, i, close - 1), close + 1)

RECURSIVE ParseDigits(_, _, _)
ParseDigits(text, i, acc) ==
    IF i <= Len(text) /\ IsDigit(text[i])
    THEN ParseDigits(text, i + 1, 10 * acc + DigitValue(text[i]))
    ELSE Parsed(acc, i)

ParseNumber(text, i) ==
    LET neg == text[i] = "-"
        j == IF neg THEN i + 1 ELSE i
    IN  IF j > Len(text) \/ ~IsDigit(text[j]) THEN ParseFail
        ELSE LET r == ParseDigits(text, j, 0)
             IN  Parsed(IntVal(IF neg THEN 0 - r.val ELSE r.val), r.next)

RECURSIVE ParseValue(_, _)
RECURSIVE ParseMembers(_, _, _)
RECURSIVE ParseElements(_, _, _)
\* The members of an object from position i, up to its closing brace.
ParseMembers(text, i, acc) ==
    LET j == SkipWs(text, i)
    IN  IF j > Len(text) \/ text[j] # Q THEN ParseFail
        ELSE LET key == ParseString(text, j + 1)
             IN  IF ~key.ok THEN ParseFail
                 ELSE LET c == SkipWs(text, key.next)
                      IN  IF c > Len(text) \/ text[c] # ":" THEN ParseFail
                          ELSE LET val == ParseValue(text, c + 1)
                               IN  IF ~val.ok THEN ParseFail
                                   ELSE LET e == SkipWs(text, val.next)
                                            items == DictSet(acc, key.val, val.val)
                                        IN  IF e > Len(text) THEN ParseFail
                                            ELSE CASE text[e] = "," ->
                                                        ParseMembers(text, e + 1, items)
                                                   [] text[e] = "}" ->
                                                        Parsed(Dict(items), e + 1)
                                                   [] OTHER -> ParseFail
\* The elements of an array from position i, up to its closing bracket.
ParseElements(text, i, acc) ==
    LET val == ParseValue(text, i)
    IN  IF ~val.ok THEN ParseFail
        ELSE LET e == SkipWs(text, val.next)
                 xs == Append(acc, val.val)
             IN  IF e > Len(text) THEN ParseFail
                 ELSE CASE text[e] = "," -> ParseElements(text, e + 1, xs)
                        [] text[e] = "]" -> Parsed(List(xs), e + 1)
                        [] OTHER -> ParseFail
ParseValue(text, i) ==
    LET j == SkipWs(text, i)
    IN  IF j > Len(text) THEN ParseFail
        ELSE CASE text[j] = "null" -> Parsed(None, j + 1)
               [] text[j] = Q ->
                    LET s == ParseString(text, j + 1)
                    IN  IF s.ok THEN Parsed(Str(s.val), s.next) ELSE ParseFail
               [] text[j] = "-" \/ IsDigit(text[j]) -> ParseNumber(text, j)
               [] text[j] = "{" ->
                    LET k == SkipWs(text, j + 1)
                    IN  IF k <= Len(text) /\ text[k] = "}"
                        THEN Parsed(Dict(<<>>), k + 1)
                        ELSE ParseMembers(text, j + 1, <<>>)
               [] text[j] = "[" ->
                    LET k == SkipWs(text, j + 1)
                    IN  IF k <= Len(text) /\ text[k] = "]"
                        THEN Parsed(List(<<>>), k + 1)
                        ELSE ParseElements(text, j + 1, <<>>)
               [] OTHER -> ParseFail

\* json.loads(text): [ok, val]; ok is FALSE where it raises JSONDecodeError
\* (no value, or text after the value).
LoadsWhole(text, r) ==
    IF r.ok /\ SkipWs(text, r.next) > Len(text)
    THEN [ok |-> TRUE, val |-> r.val]
    ELSE [ok |-> FALSE, val |-> None]
JsonLoads(text) == LoadsWhole(text, ParseValue(text, 1))

(***************************************************************************)
(* Python operations on values.  Each returns [ok, val, err]: err names    *)
(* the exception Python raises where ok is FALSE.                          *)
(***************************************************************************)
Ok(val) == [ok |-> TRUE, val |-> val, err |-> "none"]
Err(e) == [ok |-> FALSE, val |-> None, err |-> e]

\* A function object of the module, or a builtin, by name.
Func(name) == [t |-> "function", v |-> name]
\* The object `lambda a: name()` evaluates to.
Lambda(name) == [t |-> "lambda", v |-> name]

\* bool(x): what `if x:` tests.
PyTruthy(x) ==
    CASE x.t = "none" -> FALSE
      [] x.t = "int" -> x.v # 0
      [] x.t \in {"str", "list", "dict"} -> x.v # <<>>
      [] OTHER -> TRUE

\* len(x).
PyLen(x) ==
    IF x.t \in {"str", "list", "dict"} THEN Ok(Len(x.v)) ELSE Err("TypeError")

\* x[key].
PySubscript(x, key) ==
    CASE x.t = "dict" ->
           IF key.t = "str" /\ DictGet(x, key.v).ok
           THEN Ok(DictGet(x, key.v).val)
           ELSE Err("KeyError")
      [] x.t = "list" ->
           IF key.t # "int" THEN Err("TypeError")
           ELSE LET n == Len(x.v)
                    i == IF key.v < 0 THEN key.v + n ELSE key.v
                IN  IF i < 0 \/ i >= n THEN Err("IndexError")
                    ELSE Ok(x.v[i + 1])
      [] x.t = "str" ->
           IF key.t # "int" THEN Err("TypeError")
           ELSE LET n == Len(x.v)
                    i == IF key.v < 0 THEN key.v + n ELSE key.v
                IN  IF i < 0 \/ i >= n THEN Err("IndexError")
                    ELSE Ok(Str(<<x.v[i + 1]>>))
      [] OTHER -> Err("TypeError")

\* The elements `for e in x` visits.
PyIter(x) ==
    CASE x.t = "list" -> Ok(x.v)
      [] x.t = "dict" -> Ok([i \in 1..Len(x.v) |-> Str(x.v[i].k)])
      [] x.t = "str" -> Ok([i \in 1..Len(x.v) |-> Str(<<x.v[i]>>)])
      [] OTHER -> Err("TypeError")

\* int(s) for a string s: an optional sign, then digits.
PyInt(s) ==
    LET signed == s # <<>> /\ Head(s) \in {"-", "+"}
        body == IF signed THEN Tail(s) ELSE s
    IN  IF body = <<>> \/ \E i \in 1..Len(body) : ~IsDigit(body[i])
        THEN Err("ValueError")
        ELSE LET n == ParseDigits(body, 1, 0).val
             IN  Ok(IntVal(IF signed /\ Head(s) = "-" THEN 0 - n ELSE n))

\* bytes.decode('UTF-8'): the two-byte sequence C3 A9 is one character; a
\* byte E9 or a stray lead or continuation byte is not UTF-8.
HighBytes == {"0xC3", "0xA9", "0xE9"}
RECURSIVE Utf8Decode(_)
Utf8Decode(bytes) ==
    IF bytes = <<>> THEN Ok(<<>>)
    ELSE IF Head(bytes) = "0xC3" /\ Len(bytes) >= 2 /\ bytes[2] = "0xA9"
    THEN LET rest == Utf8Decode(Tail(Tail(bytes)))
         IN  IF rest.ok THEN Ok(<<"U+00E9">> \o rest.val) ELSE rest
    ELSE IF Head(bytes) \in HighBytes THEN Err("UnicodeDecodeError")
    ELSE LET rest == Utf8Decode(Tail(bytes))
         IN  IF rest.ok THEN Ok(<<Head(bytes)>> \o rest.val) ELSE rest

(***************************************************************************)
(* The environment: the two session files and the remote service.          *)
(***************************************************************************)
Entry(name, value) == [name |-> name, value |-> value]
SessionA == <<Entry(<<"session-id">>, <<"s1">>), Entry(<<"csrf">>, <<"t1">>)>>
SessionB == <<Entry(<<"csrf">>, <<"t2">>), Entry(<<"ubid">>, <<"u", Q, "2">>),
              Entry(<<"session-id">>, <<"s2">>)>>
SessionNoCsrf == <<Entry(<<"session-id">>, <<"s3">>)>>
Sessions == {SessionA, SessionB, SessionNoCsrf}

\* The session file's text: a JSON array of {name, value} objects.
SessionJson(session) ==
    List([i \in 1..Len(session) |->
            Dict(<<Item(<<"name">>, Str(session[i].name)),
                   Item(<<"value">>, Str(session[i].value))>>)])
FileOf(session) == [exists |-> TRUE, text |-> JsonDumps(SessionJson(session))]
NoFile == [exists |-> FALSE, text |-> <<>>]
CorruptFile == [exists |-> TRUE, text |-> <<"[", "{", Q, "name", Q>>]
\* What .cookie.json in the working directory and /tmp/.cookie.json may hold.
CwdFiles == {NoFile, FileOf(SessionA)}
TmpFiles == {NoFile, FileOf(SessionB), FileOf(SessionNoCsrf), CorruptFile}

DevicesUrl == "https://alexa.amazon.com/api/devices-v2/device?cached=false"
PreviewUrl == "https://alexa.amazon.com/api/behaviors/preview"

\* The devices of the account, as the service lists them.
Device(name, type, serial, owner) ==
    Dict(<<Item(<<"accountName">>, Str(name)),
           Item(<<"deviceType">>, Str(type)),
           Item(<<"serialNumber">>, serial),
           Item(<<"deviceOwnerCustomerId">>, Str(owner))>>)
AccountDevices ==
    <<Device(<<"Kitchen">>, <<"A3S5BH2HU6VAYF">>, Str(<<"G090", Q, "LF">>), <<"A1CUST">>),
      Device(<<"Office">>, <<"A32DOYMUN6DTXA">>, IntVal(7), <<"A1CUST">>)>>

\* The conditions the remote service may be in, and its answer to a request
\* in each: a network failure, or a response with a status and a body.
Services == {"up", "empty", "down", "denied", "errorpage", "latin1"}
NetworkFailure == [kind |-> "neterr", status |-> 0, body |-> <<>>]
Response(status, body) == [kind |-> "response", status |-> status, body |-> body]
ServiceReply(service, method, url) ==
    CASE service = "down" -> NetworkFailure
      [] service = "denied" ->
           Response(401, JsonDumps(Dict(<<Item(<<"message">>, None)>>)))
      [] service = "errorpage" -> Response(503, <<"caf", "0xC3", "0xA9">>)
      [] service = "latin1" -> Response(200, <<"caf", "0xE9">>)
      [] service \in {"up", "empty"} ->
           IF method = "GET" /\ url = DevicesUrl
           THEN Response(200, JsonDumps(Dict(<<Item(<<"devices">>,
                    List(IF service = "up" THEN AccountDevices ELSE <<>>))>>)))
           ELSE Response(200, <<>>)

(***************************************************************************)
(* The program.  A function of the source is an operator over its Python   *)
(* arguments and the world w it runs in,                                   *)
(*   w = [cwd, tmp, service, devices, headers, fetches, sent, log, printed]*)
(* and returns [w, ret, exc]: the world it leaves, the value it returns,   *)
(* and the exception it raises ("none" when it returns).                   *)
(***************************************************************************)
Return(w, val) == [w |-> w, ret |-> val, exc |-> "none"]
Raise(w, e) == [w |-> w, ret |-> None, exc |-> e]
\* logging.error(traceback.format_exc()) in an except clause.
Logged(w, e) == [w EXCEPT !.log = Append(@, e)]

\* except: logging.error(traceback.format_exc()), and the function ends
\* without a return statement.
Caught(w, e) == Return(Logged(w, e), None)

\* getCookie once the file's text went through json.loads.
getCookieLoaded(w, cookie) ==
    IF cookie.ok THEN Return(w, cookie.val)
    ELSE Caught(w, "JSONDecodeError")

getCookie(w) ==
    LET file == IF w.cwd.exists THEN w.cwd ELSE w.tmp
    IN  IF ~file.exists THEN Caught(w, "SystemExit")
        ELSE getCookieLoaded(w, JsonLoads(file.text))

\* The loop of getCsrf over the sections from position i.
RECURSIVE CsrfOf(_, _)
CsrfOf(sections, i) ==
    IF i > Len(sections) THEN Ok(Str(<<>>))
    ELSE LET name == PySubscript(sections[i], Str(<<"name">>))
             value == PySubscript(sections[i], Str(<<"value">>))
         IN  IF ~name.ok THEN name
             ELSE IF name.val # Str(<<"csrf">>) THEN CsrfOf(sections, i + 1)
             ELSE IF ~value.ok THEN value
             ELSE Ok(Dict(<<Item(<<"csrf">>, value.val)>>))

\* getCsrf once getCookie returned.
getCsrfOf(cookie) ==
    LET sections == PyIter(cookie.ret)
        csrf == CsrfOf(sections.val, 1)
    IN  IF ~sections.ok THEN Caught(cookie.w, sections.err)
        ELSE IF ~csrf.ok THEN Caught(cookie.w, csrf.err)
        ELSE Return(cookie.w, csrf.val)

getCsrf(w) == getCsrfOf(getCookie(w))

\* The loop of normalizeCookie over the sections from position i.
RECURSIVE CookieString(_, _, _)
CookieString(sections, i, cookieString) ==
    IF i > Len(sections) THEN Ok(Str(cookieString))
    ELSE LET name == PySubscript(sections[i], Str(<<"name">>))
             value == PySubscript(sections[i], Str(<<"value">>))
         IN  IF ~name.ok THEN name
             ELSE IF ~value.ok THEN value
             ELSE CookieString(sections, i + 1,
                      cookieString \o PyStr(name.val) \o <<"=">>
                          \o PyStr(value.val) \o <<";", " ">>)

\* normalizeCookie once getCookie returned.
normalizeCookieOf(cookie) ==
    LET sections == PyIter(cookie.ret)
        cookieString == CookieString(sections.val, 1, <<>>)
    IN  IF ~sections.ok THEN Caught(cookie.w, sections.err)
        ELSE IF ~cookieString.ok THEN Caught(cookie.w, cookieString.err)
        ELSE Return(cookie.w, cookieString.val)

normalizeCookie(w) == normalizeCookieOf(getCookie(w))

\* constructHeaders once normalizeCookie() and then getCsrf() returned.
constructHeadersOf(cookie, token) ==
    LET csrf == PySubscript(token.ret, Str(<<"csrf">>))
    IN  IF ~csrf.ok THEN Raise(token.w, csrf.err)
        ELSE Return(token.w, Dict(<<
                 Item(<<"Accept-Encoding">>, Str(<<"gzip, deflate, br">>)),
                 Item(<<"Accept-Language">>, Str(<<"en-US,en;q=0.9">>)),
                 Item(<<"User-Agent">>, Str(<<"Mozilla/5.0 (X11; Linux x86_64) AppleWebKit/537.36 (KHTML, like Gecko) Chrome/51.0.2704.103 Safari/537.36">>)),
                 Item(<<"Referer">>, Str(<<"https://alexa.amazon.com/spa/index.html">>)),
                 Item(<<"Cookie">>, cookie.ret),
                 Item(<<"Content-Type">>, Str(<<"application/json; charset=UTF-8">>)),
                 Item(<<"Connection">>, Str(<<"keep-alive">>)),
                 Item(<<"csrf">>, csrf.val)>>))
constructHeadersCookie(cookie) == constructHeadersOf(cookie, getCsrf(cookie.w))

constructHeaders(w) == constructHeadersCookie(normalizeCookie(w))

\* One request on the wire and what makeRequest made of its answer.
Exchange(method, url, hdrs, data, reply, ret, err) ==
    [method |-> method, url |-> url, headers |-> hdrs, data |-> data,
     reply |-> reply, ret |-> ret, err |-> err]
Sent(w, exchange) == [w EXCEPT !.sent = Append(@, exchange)]

\* makeRequest once the service answered: response.json(), or the content
\* decoded where that raises JSONDecodeError.
makeRequestReceive(url, method, body, h, reply, res, text) ==
    IF res.ok
    THEN Return(Sent(h.w, Exchange(method, url, h.ret, body, reply,
                                   res.val, "none")),
                res.val)
    ELSE IF text.ok
    THEN Return(Sent(h.w, Exchange(method, url, h.ret, body, reply,
                                   Str(text.val), "none")),
                Str(text.val))
    ELSE Caught(Sent(h.w, Exchange(method, url, h.ret, body, reply,
                                   None, text.err)),
                text.err)

\* makeRequest once constructHeaders() returned or raised.
makeRequestSend(url, method, body, h, reply) ==
    IF h.exc # "none" THEN Caught(h.w, h.exc)
    ELSE IF reply.kind = "neterr"
    THEN Caught(Sent(h.w, Exchange(method, url, h.ret, body, reply,
                                   None, "ConnectionError")),
                "ConnectionError")
    ELSE makeRequestReceive(url, method, body, h, reply,
                            JsonLoads(reply.body), Utf8Decode(reply.body))

\* A makeRequest that sends the headers built when the module was loaded.
makeRequest_ImportHeaders(url, method, data, w) ==
    IF method \notin {"GET", "POST"} THEN Caught(w, "AttributeError")
    ELSE makeRequestSend(url, method, IF method = "POST" THEN data ELSE None,
                         Return(w, w.headers),
                         ServiceReply(w.service, method, url))

makeRequest(url, method, data, w) ==
    IF method \notin {"GET", "POST"} THEN Caught(w, "AttributeError")
    ELSE makeRequestSend(url, method, IF method = "POST" THEN data ELSE None,
                         constructHeaders(w),
                         ServiceReply(w.service, method, url))

testApi(args, w) == makeRequest(DevicesUrl, "GET", None, w)

\* retrieveDevices once makeRequest returned r: devices = response['devices'].
retrieveDevicesStore(w, r) ==
    LET w1 == [r.w EXCEPT !.fetches = @ + Len(r.w.sent) - Len(w.sent)]
        d == PySubscript(r.ret, Str(<<"devices">>))
    IN  IF ~d.ok THEN Caught(w1, d.err)
        ELSE Return([w1 EXCEPT !.devices = d.val], d.val)

\* A retrieveDevices without its `if len(devices) == 0`.
retrieveDevices_NoGuard(w) ==
    retrieveDevicesStore(w, makeRequest(DevicesUrl, "GET", None, w))

retrieveDevices(w) ==
    LET n == PyLen(w.devices)
    IN  IF ~n.ok THEN Caught(w, n.err)
        ELSE IF n.val # 0 THEN Return(w, w.devices)
        ELSE retrieveDevicesStore(w, makeRequest(DevicesUrl, "GET", None, w))

\* getDevices after its `if len(devices) == 0: retrieveDevices()`.
getDevicesOf(w) == Return(w, Dict(<<Item(<<"devices">>, w.devices)>>))

getDevices(args, w) ==
    LET n == PyLen(w.devices)
    IN  IF ~n.ok THEN Raise(w, n.err)
        ELSE getDevicesOf(IF n.val = 0 THEN retrieveDevices(w).w ELSE w)

\* The loop over enumerate(devices) from position i: the lines
\* "{0}.) {1}".format(i+1, device['accountName']) made before it ends or raises.
RECURSIVE DeviceLines(_, _, _)
DeviceLines(elems, i, acc) ==
    IF i > Len(elems) THEN [ok |-> TRUE, val |-> acc, err |-> "none"]
    ELSE LET name == PySubscript(elems[i], Str(<<"accountName">>))
         IN  IF ~name.ok THEN [ok |-> FALSE, val |-> acc, err |-> name.err]
             ELSE DeviceLines(elems, i + 1,
                      Append(acc, Str(IntText(i) \o <<".)", " ">> \o PyStr(name.val))))

\* getDeviceList after its `if len(devices) == 0: retrieveDevices()`.
getDeviceListOf(w) ==
    LET elems == PyIter(w.devices)
        lines == DeviceLines(elems.val, 1, <<>>)
    IN  IF ~elems.ok THEN Raise(w, elems.err)
        ELSE IF ~lines.ok THEN Raise(w, lines.err)
        ELSE Return(w, List(lines.val))

getDeviceList(args, w) ==
    LET n == PyLen(w.devices)
    IN  IF ~n.ok THEN Raise(w, n.err)
        ELSE getDeviceListOf(IF n.val = 0 THEN retrieveDevices(w).w ELSE w)

\* listDevices after its `if len(devices) == 0: retrieveDevices()`.
listDevicesOf(w) ==
    LET elems == PyIter(w.devices)
        lines == DeviceLines(elems.val, 1, <<>>)
    IN  IF ~elems.ok THEN Raise(w, elems.err)
        ELSE IF ~lines.ok
        THEN Raise([w EXCEPT !.printed = @ \o lines.val], lines.err)
        ELSE Return([w EXCEPT !.printed = @ \o lines.val], None)

listDevices(args, w) ==
    LET n == PyLen(w.devices)
    IN  IF ~n.ok THEN Raise(w, n.err)
        ELSE listDevicesOf(IF n.val = 0 THEN retrieveDevices(w).w ELSE w)

\* getDeviceAttribute once getDevices() returned g.
getDeviceAttributeOf(index, attribute, g) ==
    LET device == PySubscript(g.ret, index)
        value == PySubscript(device.val, attribute)
    IN  IF g.exc # "none" THEN Caught(g.w, g.exc)
        ELSE IF ~device.ok THEN Caught(g.w, device.err)
        ELSE IF ~value.ok THEN Caught(g.w, value.err)
        ELSE Return(g.w, value.val)

getDeviceAttribute(index, attribute, w) ==
    getDeviceAttributeOf(index, attribute, getDevices(None, w))

\* The functions the module defines.
ModuleFunctions ==
    {"getCookie", "getCsrf", "normalizeCookie", "initializeLogging",
     "constructHeaders", "getDeviceList", "getDevices", "listDevices",
     "makeRequest", "testApi", "retrieveDevices", "getDeviceAttribute",
     "constructAlexaCmd", "getWeather", "speak", "execute", "run"}

\* A constructAlexaCmd that takes the serial number from deviceType too.
constructAlexaCmd_TypeAsSerial(device, type, message) ==
    LET deviceType == PySubscript(device, Str(<<"deviceType">>))
        serialNumber == PySubscript(device, Str(<<"serialNumber">>))
        customerId == PySubscript(device, Str(<<"deviceOwnerCustomerId">>))
    IN  IF ~deviceType.ok THEN deviceType
        ELSE IF ~serialNumber.ok THEN serialNumber
        ELSE IF ~customerId.ok THEN customerId
        ELSE LET payload ==
                     <<Item(<<"deviceType">>, Str(PyStr(deviceType.val))),
                       Item(<<"deviceTypeId">>, Str(PyStr(deviceType.val))),
                       Item(<<"deviceSerialNumber">>, Str(PyStr(deviceType.val))),
                       Item(<<"locale">>, Str(<<"en-US">>)),
                       Item(<<"customerId">>, Str(PyStr(customerId.val)))>>
                 \* `if speak:` tests the module's function speak.
                 operationPayload ==
                     IF PyTruthy(Func("speak"))
                     THEN DictSet(payload, <<"textToSpeak">>, message)
                     ELSE payload
                 startNode ==
                     Dict(<<Item(<<"@type">>, Str(<<"com.amazon.alexa.behaviors.model.OpaquePayloadOperationNode">>)),
                            Item(<<"type">>, Str(type)),
                            Item(<<"operationPayload">>, Dict(operationPayload))>>)
                 sequenceJson ==
                     Dict(<<Item(<<"@type">>, Str(<<"com.amazon.alexa.behaviors.model.Sequence">>)),
                            Item(<<"startNode">>, startNode)>>)
             IN  Ok(Str(JsonDumps(Dict(<<
                     Item(<<"behaviorId">>, Str(<<"PREVIEW">>)),
                     Item(<<"sequenceJson">>, Str(JsonDumps(sequenceJson))),
                     Item(<<"status">>, Str(<<"ENABLED">>))>>))))

\* constructAlexaCmd returns [ok, val, err]: it reads no state.
constructAlexaCmd(device, type, message) ==
    LET deviceType == PySubscript(device, Str(<<"deviceType">>))
        serialNumber == PySubscript(device, Str(<<"serialNumber">>))
        customerId == PySubscript(device, Str(<<"deviceOwnerCustomerId">>))
    IN  IF ~deviceType.ok THEN deviceType
        ELSE IF ~serialNumber.ok THEN serialNumber
        ELSE IF ~customerId.ok THEN customerId
        ELSE LET payload ==
                     <<Item(<<"deviceType">>, Str(PyStr(deviceType.val))),
                       Item(<<"deviceTypeId">>, Str(PyStr(deviceType.val))),
                       Item(<<"deviceSerialNumber">>, Str(PyStr(serialNumber.val))),
                       Item(<<"locale">>, Str(<<"en-US">>)),
                       Item(<<"customerId">>, Str(PyStr(customerId.val)))>>
                 \* `if speak:` tests the module's function speak.
                 operationPayload ==
                     IF PyTruthy(Func("speak"))
                     THEN DictSet(payload, <<"textToSpeak">>, message)
                     ELSE payload
                 startNode ==
                     Dict(<<Item(<<"@type">>, Str(<<"com.amazon.alexa.behaviors.model.OpaquePayloadOperationNode">>)),
                            Item(<<"type">>, Str(type)),
                            Item(<<"operationPayload">>, Dict(operationPayload))>>)
                 sequenceJson ==
                     Dict(<<Item(<<"@type">>, Str(<<"com.amazon.alexa.behaviors.model.Sequence">>)),
                            Item(<<"startNode">>, startNode)>>)
             IN  Ok(Str(JsonDumps(Dict(<<
                     Item(<<"behaviorId">>, Str(<<"PREVIEW">>)),
                     Item(<<"sequenceJson">>, Str(JsonDumps(sequenceJson))),
                     Item(<<"status">>, Str(<<"ENABLED">>))>>))))

\* int(x).
PyIntOf(x) ==
    CASE x.t = "str" -> PyInt(x.v)
      [] x.t = "int" -> Ok(x)
      [] OTHER -> Err("TypeError")

\* The end of getWeather and of speak: the command, if it was built, is posted.
PostAlexaCmd(w, alexaCmd) ==
    IF ~alexaCmd.ok THEN Caught(w, alexaCmd.err)
    ELSE makeRequest(PreviewUrl, "POST", alexaCmd.val, w)

\* getWeather once getDevices() returned g.
getWeatherOf(deviceIndex, g) ==
    LET device == PySubscript(PySubscript(g.ret, Str(<<"devices">>)).val,
                              deviceIndex)
    IN  IF g.exc # "none" THEN Caught(g.w, g.exc)
        ELSE IF ~device.ok THEN Caught(g.w, device.err)
        ELSE PostAlexaCmd(g.w, constructAlexaCmd(device.val,
                                                 <<"Alexa.Weather.Play">>, None))

getWeather(args, w) ==
    LET arg0 == PySubscript(args, IntVal(0))
        deviceIndex == PyIntOf(arg0.val)
    IN  IF ~arg0.ok THEN Caught(w, arg0.err)
        ELSE IF ~deviceIndex.ok THEN Caught(w, deviceIndex.err)
        ELSE getWeatherOf(deviceIndex.val, getDevices(None, w))

\* speak once getDevices() returned g.
speakOf(deviceIndex, message, g) ==
    LET device == PySubscript(PySubscript(g.ret, Str(<<"devices">>)).val,
                              deviceIndex)
    IN  IF g.exc # "none" THEN Caught(g.w, g.exc)
        ELSE IF ~device.ok THEN Caught(g.w, device.err)
        ELSE PostAlexaCmd(g.w, constructAlexaCmd(device.val,
                                                 <<"Alexa.Speak">>, message))

speak(args, w) ==
    LET arg0 == PySubscript(args, IntVal(0))
        deviceIndex == PyIntOf(arg0.val)
        message == PySubscript(args, IntVal(1))
    IN  IF ~arg0.ok THEN Caught(w, arg0.err)
        ELSE IF ~deviceIndex.ok THEN Caught(w, deviceIndex.err)
        ELSE IF ~message.ok THEN Caught(w, message.err)
        ELSE speakOf(deviceIndex.val, message.val, getDevices(None, w))

\* eval(command): a name is looked up among the module's functions (a name
\* the module does not define raises NameError); `lambda a: f()` makes a
\* function object.
LambdaText(name) == <<"lambda", " ", "a", ":", " ", name, "(", ")">>
PyEval(command) ==
    IF Len(command) = 1
    THEN IF command[1] \in ModuleFunctions
         THEN Ok(Func(command[1])) ELSE Err("NameError")
    ELSE IF Len(command) = Len(LambdaText("f"))
            /\ command = LambdaText(command[6])
    THEN Ok(Lambda(command[6]))
    ELSE Err("SyntaxError")

\* name(args), with one positional argument: the functions that take no
\* argument, or need more than one, raise TypeError.
CallWithArgs(name, args, w) ==
    CASE name = "getDeviceList" -> getDeviceList(args, w)
      [] name = "getDevices" -> getDevices(args, w)
      [] name = "listDevices" -> listDevices(args, w)
      [] name = "testApi" -> testApi(args, w)
      [] name = "getWeather" -> getWeather(args, w)
      [] name = "speak" -> speak(args, w)
      [] OTHER -> Raise(w, "TypeError")

\* name(), with no argument.
CallWithoutArgs(name, w) ==
    CASE name = "retrieveDevices" -> retrieveDevices(w)
      [] name \in {"getDeviceList", "getDevices", "listDevices", "testApi"} ->
           CallWithArgs(name, None, w)
      [] name \in ModuleFunctions -> Raise(w, "TypeError")
      [] OTHER -> Raise(w, "NameError")

execute(command, args, w) ==
    LET exe == PyEval(command)
    IN  IF ~exe.ok THEN Raise(w, exe.err)
        ELSE IF exe.val.t = "lambda" THEN CallWithoutArgs(exe.val.v, w)
        ELSE CallWithArgs(exe.val.v, args, w)

(***************************************************************************)
(* The state: the environment (the two session files, the condition of     *)
(* the remote service), the module's globals (devices, headers), and what  *)
(* the last call did: the requests it sent, the errors it logged, the      *)
(* lines it printed, and its outcome.                                      *)
(***************************************************************************)
VARIABLES
    cookieFile,     \* .cookie.json in the working directory
    tmpCookieFile,  \* /tmp/.cookie.json
    service,        \* the condition of the remote service
    devices,        \* the global devices
    headers,        \* the global headers, built when the module is loaded
    fetches,        \* GETs of the device list that retrieveDevices has issued
    pc,             \* "idle", or "called" after a call has returned or raised
    call,           \* the last call: [fn, args]
    outcome,        \* its outcome: [ret, exc]
    sent,           \* the exchanges it had with the service, in order
    log,            \* the exceptions it logged, in order
    printed         \* the lines it printed

vars == <<cookieFile, tmpCookieFile, service, devices, headers, fetches,
          pc, call, outcome, sent, log, printed>>

NoCall == [fn |-> "none", args |-> <<>>]
NoOutcome == [ret |-> None, exc |-> "none"]

\* The world a call starts in.
World ==
    [cwd |-> cookieFile, tmp |-> tmpCookieFile, service |-> service,
     devices |-> devices, headers |-> headers, fetches |-> fetches,
     sent |-> <<>>, log |-> <<>>, printed |-> <<>>]

\* Loading the module: devices = [], headers = constructHeaders().  The load
\* fails, and there is no process, where constructHeaders raises.
Init ==
    /\ cookieFile \in CwdFiles
    /\ tmpCookieFile \in TmpFiles
    /\ service \in Services
    /\ devices = List(<<>>)
    /\ fetches = 0
    /\ LET h == constructHeaders([cwd |-> cookieFile, tmp |-> tmpCookieFile,
                                  log |-> <<>>])
       IN  h.exc = "none" /\ headers = h.ret
    /\ pc = "idle"
    /\ call = NoCall
    /\ outcome = NoOutcome
    /\ sent = <<>>
    /\ log = <<>>
    /\ printed = <<>>

\* The call fn(args) runs to its end r.
Invoke(fn, args, r) ==
    /\ pc = "idle"
    /\ r.w.fetches <= MaxFetches
    /\ pc' = "called"
    /\ call' = [fn |-> fn, args |-> args]
    /\ outcome' = [ret |-> r.ret, exc |-> r.exc]
    /\ devices' = r.w.devices
    /\ fetches' = r.w.fetches
    /\ sent' = r.w.sent
    /\ log' = r.w.log
    /\ printed' = r.w.printed
    /\ UNCHANGED <<cookieFile, tmpCookieFile, service, headers>>

\* The arguments of the command line.
IndexRange == (0 - Len(AccountDevices) - 1)..Len(AccountDevices)
IndexTexts == {IntText(i) : i \in IndexRange} \cup {<<"x">>}
MessageAtoms == {"hi", Q, BS}
Messages == UNION {[1..n -> MessageAtoms] : n \in 0..MaxMsgLen}
SpeakArgs ==
    {List(<<Str(i), Str(m)>>) : i \in IndexTexts, m \in Messages}
        \cup {List(<<>>), List(<<Str(<<"0">>)>>)}
WeatherArgs == {List(<<Str(i)>>) : i \in IndexTexts} \cup {List(<<>>)}
\* The operations of the dispatcher's fixed set.
ListingOperations == {"getDevices", "getDeviceList", "listDevices"}
FixedOperations ==
    ListingOperations \cup {"getDeviceAttribute", "speak", "getWeather", "testApi"}
\* Commands outside the fixed set: a function of the module that is no
\* operation, a name the module does not define, and an expression.
OtherCommands ==
    {<<"retrieveDevices">>, <<"noSuchCommand">>, LambdaText("retrieveDevices")}

CommandLines ==
    {<<(<<name>>), List(<<>>)>> : name \in ListingOperations \cup {"testApi"}}
        \cup {<<(<<"speak">>), args>> : args \in SpeakArgs}
        \cup {<<(<<"getWeather">>), args>> : args \in WeatherArgs}
        \cup {<<(<<"getDeviceAttribute">>),
                List(<<Str(<<"0">>), Str(<<"accountName">>)>>)>>}
        \cup {<<command, List(<<Str(<<"0">>)>>)>> : command \in OtherCommands}

Execute ==
    \E line \in CommandLines :
        Invoke("execute", <<Str(line[1]), line[2]>>,
               execute(line[1], line[2], World))

\* The functions a caller that imports the module calls directly.
CallRetrieveDevices == Invoke("retrieveDevices", <<>>, retrieveDevices(World))

AttributeIndexes ==
    {IntVal(i) : i \in (0 - 1)..Len(AccountDevices)} \cup {Str(<<"devices">>)}
AttributeNames ==
    {Str(<<"accountName">>), Str(<<"serialNumber">>), Str(<<"nickname">>), IntVal(0)}
CallGetDeviceAttribute ==
    \E index \in AttributeIndexes, attribute \in AttributeNames :
        Invoke("getDeviceAttribute", <<index, attribute>>,
               getDeviceAttribute(index, attribute, World))

\* The caller takes the outcome and goes on.
Continue ==
    /\ pc = "called"
    /\ pc' = "idle"
    /\ call' = NoCall
    /\ outcome' = NoOutcome
    /\ sent' = <<>>
    /\ log' = <<>>
    /\ printed' = <<>>
    /\ UNCHANGED <<cookieFile, tmpCookieFile, service, devices, headers, fetches>>

\* Between two calls the session-capture process rewrites or removes a
\* session file, and the remote service changes its condition.
SessionChanges ==
    /\ pc = "idle"
    /\ \/ cookieFile' \in CwdFiles \ {cookieFile} /\ UNCHANGED tmpCookieFile
       \/ tmpCookieFile' \in TmpFiles \ {tmpCookieFile} /\ UNCHANGED cookieFile
    /\ UNCHANGED <<service, devices, headers, fetches, pc, call, outcome,
                   sent, log, printed>>

ServiceChanges ==
    /\ pc = "idle"
    /\ service' \in Services \ {service}
    /\ UNCHANGED <<cookieFile, tmpCookieFile, devices, headers, fetches, pc,
                   call, outcome, sent, log, printed>>

Next ==
    \/ Execute
    \/ CallRetrieveDevices
    \/ CallGetDeviceAttribute
    \/ Continue
    \/ SessionChanges
    \/ ServiceChanges

Spec == Init /\ [][Next]_vars

(***************************************************************************)
(* What the claims speak of.                                               *)
(***************************************************************************)
\* The session file the process reads now, and the session it holds.
CurrentFile == IF cookieFile.exists THEN cookieFile ELSE tmpCookieFile
SessionsRead == {s \in Sessions : FileOf(s) = CurrentFile}
HasCsrf(session) == \E i \in 1..Len(session) : session[i].name = <<"csrf">>
CsrfValue(session) ==
    session[CHOOSE i \in 1..Len(session) : session[i].name = <<"csrf">>].value
\* `name=value; ` for each entry, in the session's order.
RECURSIVE CookieOf(_)
CookieOf(session) ==
    IF session = <<>> THEN <<>>
    ELSE Head(session).name \o <<"=">> \o Head(session).value \o <<";", " ">>
         \o CookieOf(Tail(session))

\* The last call was execute(name, args).
Executed(name) ==
    pc = "called" /\ call.fn = "execute" /\ call.args[1] = Str(<<name>>)
DeviceIndexed == Executed("speak") \/ Executed("getWeather")
\* The POSTs to the behaviors/preview endpoint among the requests sent.
Posts == {k \in 1..Len(sent) : sent[k].method = "POST" /\ sent[k].url = PreviewUrl}

\* x[key] for a decoded JSON value x: [ok, val].
Field(x, key) ==
    IF x.t = "dict" THEN DictGet(x, key) ELSE [ok |-> FALSE, val |-> None]
\* The operation payload of a posted envelope: the outer JSON decoded, then
\* its sequenceJson string decoded, then startNode.operationPayload.
PayloadOfSequence(inner) ==
    Field(Field(inner.val, <<"startNode">>).val, <<"operationPayload">>).val
PayloadOfField(sequence) ==
    IF sequence.ok /\ sequence.val.t = "str"
    THEN PayloadOfSequence(JsonLoads(sequence.val.v))
    ELSE None
PayloadOfEnvelope(outer) == PayloadOfField(Field(outer.val, <<"sequenceJson">>))
Payload(data) == PayloadOfEnvelope(JsonLoads(data.v))
\* A device's serial number as a string.
SerialText(device) ==
    LET serial == DictGet(device, <<"serialNumber">>).val
    IN  IF serial.t = "int" THEN IntText(serial.v) ELSE serial.v

C2_OutOfRangeSendsNoPost ==
    \A i \in IndexRange :
        (/\ DeviceIndexed
         /\ call.args[2].v # <<>>
         /\ call.args[2].v[1] = Str(IntText(i))
         /\ (i < 0 \/ i >= Len(devices.v)))
        => /\ outcome.exc = "IndexError" \/ \E k \in 1..Len(log) : log[k] = "IndexError"
           /\ Posts = {}

\* C3: execute with a command outside the fixed set of operations fails
\* (an error reaches the caller) and sends no request.
C3_UnknownOperationFails ==
    (/\ pc = "called" /\ call.fn = "execute"
     /\ call.args[1].v \notin {<<name>> : name \in FixedOperations})
    => outcome.exc # "none" /\ sent = <<>>

\* C4: execute("speak", [i, m]) with i a valid index into the cached device
\* sequence, made while the session file holds a session with a csrf entry,
\* sends exactly one POST to the behaviors/preview endpoint, and the
\* operation payload of its envelope has textToSpeak = m and
\* deviceSerialNumber = the serial number of the device at position i, as a
\* string.
C4_SpeakEnvelope ==
    \A i \in 0..(Len(devices.v) - 1), m \in Messages :
        (/\ Executed("speak")
         /\ call.args[2] = List(<<Str(IntText(i)), Str(m)>>)
         /\ \E s \in SessionsRead : HasCsrf(s))
        => /\ Cardinality(Posts) = 1
           /\ \A k \in Posts :
                /\ k = Len(sent)
                /\ Field(Payload(sent[k].data), <<"textToSpeak">>)
                       = [ok |-> TRUE, val |-> Str(m)]
                /\ Field(Payload(sent[k].data), <<"deviceSerialNumber">>)
                       = [ok |-> TRUE, val |-> Str(SerialText(devices.v[i + 1]))]

\* speak fetched the device list and then posted a message that is one quote
\* to the second device, whose serial number the service lists as a number.
C4_Witness ==
    /\ Executed("speak")
    /\ call.args[2] = List(<<Str(<<"1">>), Str(<<Q>>)>>)
    /\ Len(sent) = 2 /\ Posts = {2}
    /\ Field(Payload(sent[2].data), <<"deviceSerialNumber">>).val = Str(<<"7">>)

\* C5: the operation payload of every envelope getWeather posts has no
\* textToSpeak field.
C5_WeatherHasNoTextToSpeak ==
    \A k \in Posts :
        Executed("getWeather")
        => ~Field(Payload(sent[k].data), <<"textToSpeak">>).ok

\* C6: every request sent carries the Cookie and csrf headers of the session
\* the session file holds at that request: the concatenation of `name=value; `
\* in entry order, and the value of the entry named csrf.
C6_HeadersOfCurrentSession ==
    \A k \in 1..Len(sent) :
        \E s \in SessionsRead :
            /\ HasCsrf(s)
            /\ Field(sent[k].headers, <<"Cookie">>)
                   = [ok |-> TRUE, val |-> Str(CookieOf(s))]
            /\ Field(sent[k].headers, <<"csrf">>)
                   = [ok |-> TRUE, val |-> Str(CsrfValue(s))]

\* A POST was sent, after the device list had been fetched by an earlier
\* call, with headers that are not those built when the module was loaded:
\* the session file has changed since.
C6_Witness ==
    /\ pc = "called" /\ devices.v # <<>>
    /\ Len(sent) = 1 /\ Posts = {1}
    /\ sent[1].headers # headers
    /\ \E s \in SessionsRead :
           Field(sent[1].headers, <<"csrf">>).val = Str(CsrfValue(s))

\* C7: with a session that has no csrf entry, speak and getWeather, called
\* with the arguments they take and the index of a device of the account,
\* fail explicitly (an error reaches the caller), and no POST is sent
\* without a csrf header.
C7_CsrfMissingFails ==
    (/\ DeviceIndexed
     /\ Len(call.args[2].v) = (IF Executed("speak") THEN 2 ELSE 1)
     /\ \E i \in 0..(Len(AccountDevices) - 1) :
            call.args[2].v[1] = Str(IntText(i))
     /\ \E s \in SessionsRead : ~HasCsrf(s))
    => /\ outcome.exc # "none"
       /\ \A k \in Posts : Field(sent[k].headers, <<"csrf">>).ok

\* C8: makeRequest returns no null result for a network failure, and no
\* ordinary (structured or raw-text) result for a response whose status is
\* not 2xx.
C8_TransportErrorPropagates ==
    \A k \in 1..Len(sent) :
        /\ sent[k].reply.kind = "neterr" => sent[k].ret # None
        /\ (sent[k].reply.kind = "response"
                /\ sent[k].reply.status \notin 200..299)
           => sent[k].ret = None

\* C9: for a response whose body does not parse as JSON, makeRequest returns
\* the decoded text of the body and treats nothing as an error.
C9_NonJsonIsRawText ==
    \A k \in 1..Len(sent) :
        (sent[k].reply.kind = "response" /\ ~JsonLoads(sent[k].reply.body).ok)
        => sent[k].ret.t = "str" /\ sent[k].err = "none"

\* C10: getDeviceAttribute(i, name), for a valid index i into the cached
\* device sequence and an attribute name the device has, returns the
\* device's value for it.
C10_AttributeValue ==
    \A i \in 0..(Len(devices.v) - 1), name \in AttributeNames :
        (/\ pc = "called"
         /\ call = [fn |-> "getDeviceAttribute", args |-> <<IntVal(i), name>>]
         /\ name.t = "str"
         /\ DictGet(devices.v[i + 1], name.v).ok)
        => outcome = [ret |-> DictGet(devices.v[i + 1], name.v).val,
                      exc |-> "none"]
====
